---- MODULE Spec2Model ----
(***************************************************************************)
(* Heart Disease Risk Analyzer (src/GUI.py): start-up artifact loading,    *)
(* the input form, validate_inputs(), predict() and clear_fields() of      *)
(* class HeartDiseasePredictor, as a state machine.                        *)
(*                                                                         *)
(* Text typed into an Entry is a sequence of one-character strings, so     *)
(* that str.strip() and float() are computed on the characters.  A         *)
(* Combobox value is the selected label.  A parsed number is the record    *)
(* [num, exp] standing for num * 10^(-exp), kept in canonical form.        *)
(***************************************************************************)
EXTENDS Integers, Sequences, FiniteSets, TLC

VARIABLES
    pc,             \* position of the process: start-up steps, mainloop, exited
    disk,           \* environment: what each model file holds
    scalerFile,     \* environment: what scaler.pkl holds
    i,              \* load_models: index of the next model_paths item
    attempted,      \* load_models: tags whose joblib.load has been called
    models,         \* loaded_models / self.models: keys in insertion order
    failed_models,  \* load_models: failed_models list
    warnings,       \* number of "Model Warning" boxes shown
    fatal,          \* title of the fatal error box shown, "" when none
    scaler,         \* self.scaler: "unset" or the loaded artifact
    entries,        \* widget contents, one per field in schema order
    model_var,      \* self.model_var
    result_var,     \* self.result_var with the label's foreground colour
    status_bar,     \* status bar text
    req,            \* what the last predict() request did, NoReq otherwise
    nEvents         \* user events handled since the UI came up

vars == <<pc, disk, scalerFile, i, attempted, models, failed_models, warnings,
          fatal, scaler, entries, model_var, result_var, status_bar, req,
          nEvents>>

-----------------------------------------------------------------------------
(* Bounds of the model.                                                    *)

\* user events (edits, selections, clear, predict) explored after start-up
MaxEvents == 2

-----------------------------------------------------------------------------
(* Sequence helpers.                                                       *)

Range(s) == {s[n] : n \in 1..Len(s)}

\* first index of s holding an element of cs, 0 when there is none
IndexOf(s, cs) ==
    IF \E n \in 1..Len(s) : s[n] \in cs
    THEN CHOOSE n \in 1..Len(s) : s[n] \in cs /\ \A m \in 1..(n-1) : s[m] \notin cs
    ELSE 0

-----------------------------------------------------------------------------
(* str.strip() and float() of Python, on character sequences.              *)

IsSpace(c) == c \in {" ", "\t", "\n", "\r"}

RECURSIVE LStrip(_)
LStrip(s) == IF s # <<>> /\ IsSpace(Head(s)) THEN LStrip(Tail(s)) ELSE s

RECURSIVE RStrip(_)
RStrip(s) ==
    IF s # <<>> /\ IsSpace(s[Len(s)]) THEN RStrip(SubSeq(s, 1, Len(s) - 1)) ELSE s

\* str.strip()
Strip(s) == RStrip(LStrip(s))

Digits == {"0", "1", "2", "3", "4", "5", "6", "7", "8", "9"}

DigitVal(c) ==
    CASE c = "0" -> 0 [] c = "1" -> 1 [] c = "2" -> 2 [] c = "3" -> 3
      [] c = "4" -> 4 [] c = "5" -> 5 [] c = "6" -> 6 [] c = "7" -> 7
      [] c = "8" -> 8 [] c = "9" -> 9

Lower(c) ==
    CASE c = "I" -> "i" [] c = "N" -> "n" [] c = "F" -> "f" [] c = "T" -> "t"
      [] c = "Y" -> "y" [] c = "A" -> "a" [] c = "E" -> "e" [] OTHER -> c

LowerSeq(s) == [n \in 1..Len(s) |-> Lower(s[n])]

\* digitpart of the float grammar: digits, single underscores between digits
DigitPart(s) ==
    /\ s # <<>>
    /\ \A n \in 1..Len(s) :
          \/ s[n] \in Digits
          \/ /\ s[n] = "_"
             /\ n > 1 /\ n < Len(s)
             /\ s[n-1] \in Digits /\ s[n+1] \in Digits

RECURSIVE DigitsToInt(_)
DigitsToInt(s) ==
    IF s = <<>> THEN 0
    ELSE IF s[Len(s)] = "_" THEN DigitsToInt(SubSeq(s, 1, Len(s) - 1))
    ELSE 10 * DigitsToInt(SubSeq(s, 1, Len(s) - 1)) + DigitVal(s[Len(s)])

NumDigits(s) == Cardinality({n \in 1..Len(s) : s[n] \in Digits})

HasSign(s) == s # <<>> /\ Head(s) \in {"+", "-"}
Unsigned(s) == IF HasSign(s) THEN Tail(s) ELSE s
SignOf(s) == IF s # <<>> /\ Head(s) = "-" THEN -1 ELSE 1

\* the parts of an unsigned literal: mantissa integer part, fraction, exponent
ExpAt(u) == IndexOf(u, {"e", "E"})
MantOf(u) == IF ExpAt(u) = 0 THEN u ELSE SubSeq(u, 1, ExpAt(u) - 1)
ExpoOf(u) == IF ExpAt(u) = 0 THEN <<>> ELSE SubSeq(u, ExpAt(u) + 1, Len(u))
DotAt(m) == IndexOf(m, {"."})
IntPart(m) == IF DotAt(m) = 0 THEN m ELSE SubSeq(m, 1, DotAt(m) - 1)
FracPart(m) == IF DotAt(m) = 0 THEN <<>> ELSE SubSeq(m, DotAt(m) + 1, Len(m))

MantOk(m) ==
    /\ IntPart(m) = <<>> \/ DigitPart(IntPart(m))
    /\ FracPart(m) = <<>> \/ DigitPart(FracPart(m))
    /\ IntPart(m) # <<>> \/ FracPart(m) # <<>>

DecimalOk(u) ==
    /\ MantOk(MantOf(u))
    /\ ExpAt(u) # 0 => DigitPart(Unsigned(ExpoOf(u)))

SpecialOk(u) == LowerSeq(u) \in {<<"i","n","f">>, <<"n","a","n">>,
                                 <<"i","n","f","i","n","i","t","y">>}

\* float(s) does not raise ValueError
FloatOk(s) == LET u == Unsigned(Strip(s)) IN DecimalOk(u) \/ SpecialOk(u)

\* canonical form of num * 10^(-exp): num carries no trailing zero
RECURSIVE Canon(_, _)
Canon(num, exp) ==
    IF num = 0 THEN [kind |-> "finite", num |-> 0, exp |-> 0]
    ELSE IF num % 10 = 0 THEN Canon(num \div 10, exp - 1)
    ELSE [kind |-> "finite", num |-> num, exp |-> exp]

\* an int as numpy stores it in a float array
Float(n) == Canon(n, 0)

\* float(s), for s with FloatOk(s)
FloatVal(s) ==
    LET t == Strip(s)
        u == Unsigned(t)
        m == MantOf(u)
        e == ExpoOf(u)
    IN  IF SpecialOk(u)
        THEN IF LowerSeq(u) = <<"n","a","n">>
             THEN [kind |-> "nan", num |-> 0, exp |-> 0]
             ELSE [kind |-> "inf", num |-> SignOf(t), exp |-> 0]
        ELSE Canon(SignOf(t) * DigitsToInt(IntPart(m) \o FracPart(m)),
                   NumDigits(FracPart(m))
                     - (IF e = <<>> THEN 0 ELSE SignOf(e) * DigitsToInt(Unsigned(e))))

-----------------------------------------------------------------------------
(* The field schema, get_field_definitions().                              *)

\* opts of a numeric field (None)
None == <<>>

Opt(l, c) == [label |-> l, code |-> c]

FieldDefs == <<
    [key |-> "age",                 opts |-> None],
    [key |-> "sex",                 opts |-> <<Opt("Male", 1), Opt("Female", 0)>>],
    [key |-> "chest pain type",     opts |-> <<Opt("Typical angina", 1),
                                               Opt("Atypical angina", 2),
                                               Opt("Non-anginal pain", 3),
                                               Opt("Asymptomatic", 4)>>],
    [key |-> "resting bp s",        opts |-> None],
    [key |-> "cholesterol",         opts |-> None],
    [key |-> "fasting blood sugar", opts |-> <<Opt("Yes", 1), Opt("No", 0)>>],
    [key |-> "resting ecg",         opts |-> <<Opt("normal", 0),
                                               Opt("ST-T abnormality", 1),
                                               Opt("Left ventricular hypertrophy", 2)>>],
    [key |-> "max heart rate",      opts |-> None],
    [key |-> "exercise angina",     opts |-> <<Opt("Yes", 1), Opt("No", 0)>>],
    [key |-> "oldpeak",             opts |-> None],
    [key |-> "ST slope",            opts |-> <<Opt("upsloping", 1),
                                               Opt("flat", 2),
                                               Opt("downsloping", 3)>>] >>

NFields == Len(FieldDefs)
NumericFields == {n \in 1..NFields : FieldDefs[n].opts = None}
CategoricalFields == (1..NFields) \ NumericFields

\* the keys of a mapping, and the lookup opts[label]
Labels(opts) == {opts[n].label : n \in 1..Len(opts)}
CodeOf(opts, l) == (CHOOSE o \in Range(opts) : o.label = l).code

\* set_default_values(): the text put into the numeric entries
Defaults == [n \in NumericFields |->
    CASE FieldDefs[n].key = "age"            -> <<"5", "0">>
      [] FieldDefs[n].key = "resting bp s"   -> <<"1", "2", "0">>
      [] FieldDefs[n].key = "cholesterol"    -> <<"2", "0", "0">>
      [] FieldDefs[n].key = "max heart rate" -> <<"1", "5", "0">>
      [] FieldDefs[n].key = "oldpeak"        -> <<"1", ".", "0">>]

-----------------------------------------------------------------------------
(* The artifacts.  What a .pkl file unpickles to is outside the source;    *)
(* the model distinguishes the ways it can behave when called.             *)

\* model_paths, in dict order
Tags == <<"BFO", "ACO", "DE", "GA", "ABC">>
TagSet == Range(Tags)

\* "corrupt": joblib.load raises.  "svm": predict returns 0 or 1.
\* "multiclass": predict returns a label other than 0 and 1.
\* "broken": predict raises.
ModelFileKinds == {"corrupt", "svm", "multiclass", "broken"}

\* "corrupt": joblib.load raises.  "scaler": transform returns the scaled
\* array.  "broken": transform raises.
ScalerFileKinds == {"corrupt", "scaler", "broken"}

\* what each model file unpickles to when it is intact
Shipped == [t \in TagSet |->
    CASE t = "DE" -> "multiclass" [] t = "GA" -> "broken" [] OTHER -> "svm"]

\* the deployments explored: every subset of the model files corrupt
Disks == {d \in [TagSet -> ModelFileKinds] :
            \A t \in TagSet : d[t] \in {"corrupt", Shipped[t]}}

\* scaler.transform(arr): the call raises, or returns the transformed array
ScalerTransform(sc, data) ==
    IF sc = "scaler" THEN [raised |-> FALSE, X |-> [scaled |-> data]]
    ELSE [raised |-> TRUE, X |-> [scaled |-> <<>>]]

\* the decision function of a loaded classifier: a fixed function of the
\* scaled input (here of the exercise angina column)
SvmLabel(X) == IF X.scaled[9] = Float(1) THEN 1 ELSE 0

\* model.predict(X_new)[0]: the call raises, or returns a label
ModelPredict(artifact, X) ==
    CASE artifact = "svm"        -> [raised |-> FALSE, label |-> SvmLabel(X)]
      [] artifact = "multiclass" -> [raised |-> FALSE, label |-> 2]
      [] OTHER                   -> [raised |-> TRUE, label |-> -1]

-----------------------------------------------------------------------------
(* show_error(): a message box, then exit() when fatal.                    *)

\* mutant: show_error() returns to its caller even when fatal
ShowErrorReturns(next, isFatal) == next

\* where the process is after show_error(..., fatal) called at a point
\* that would go on to `next`
ShowError(next, isFatal) == IF isFatal THEN "exited" ELSE next

\* mutant: predict() reports its failure with fatal=True
AnalysisFailedFatalSet == TRUE

\* the fatal argument of the three call sites
ScalerErrorFatal == TRUE
NoModelsFatal == TRUE
AnalysisFailedFatal == FALSE

-----------------------------------------------------------------------------
(* validate_inputs() and the body of predict(), as functions of the        *)
(* object's fields.                                                        *)

NoError == [field |-> "", reason |-> ""]

\* mutant: the text is tested without strip()
FieldErrorNoStrip(def, raw) ==
    IF def.opts = None
    THEN IF raw = <<>> THEN [field |-> def.key, reason |-> "empty"]
         ELSE IF ~FloatOk(raw) THEN [field |-> def.key, reason |-> "not numeric"]
         ELSE NoError
    ELSE IF raw \notin Labels(def.opts)
         THEN [field |-> def.key, reason |-> "invalid selection"]
         ELSE NoError

\* the check of one field in validate_inputs(): the ValueError it raises
FieldError(def, raw) ==
    IF def.opts = None
    THEN LET val == Strip(raw)
         IN  IF val = <<>> THEN [field |-> def.key, reason |-> "empty"]
             ELSE IF ~FloatOk(val) THEN [field |-> def.key, reason |-> "not numeric"]
             ELSE NoError
    ELSE IF raw \notin Labels(def.opts)
         THEN [field |-> def.key, reason |-> "invalid selection"]
         ELSE NoError

\* the loop of validate_inputs() from field n on: the first ValueError raised
RECURSIVE ValidateFrom(_, _)
ValidateFrom(e, n) ==
    IF n > Len(e) THEN NoError
    ELSE IF FieldError(FieldDefs[n], e[n]) # NoError
         THEN FieldError(FieldDefs[n], e[n])
         ELSE ValidateFrom(e, n + 1)

\* mutant: every field is checked and the last error is the one reported
RECURSIVE ValidateLastFrom(_, _)
ValidateLastFrom(e, n) ==
    IF n > Len(e) THEN NoError
    ELSE IF ValidateLastFrom(e, n + 1) # NoError THEN ValidateLastFrom(e, n + 1)
    ELSE FieldError(FieldDefs[n], e[n])

ValidateInputsLast(e) == ValidateLastFrom(e, 1)

ValidateInputs(e) == ValidateFrom(e, 1)

\* mutant: the combobox position is appended instead of opts[label]
EncodeFieldByPosition(def, raw) ==
    IF def.opts # None
    THEN Float(CHOOSE n \in 1..Len(def.opts) : def.opts[n].label = raw)
    ELSE FloatVal(raw)

\* one iteration of the gathering loop of predict()
EncodeField(def, raw) ==
    IF def.opts # None THEN Float(CodeOf(def.opts, raw)) ELSE FloatVal(raw)

\* data, as np.array([data]) holds it
Encode(e) == [n \in 1..Len(e) |-> EncodeField(FieldDefs[n], e[n])]

NoReq == [outcome |-> "none", title |-> "", field |-> "", reason |-> "",
          dialogs |-> 0, data |-> <<>>, transform |-> FALSE, lookup |-> FALSE,
          predict |-> FALSE, pred |-> -1]

\* mutant: the model is looked up before the scaler is called
AnalyseLookupFirst(e, mv, ms, sc, dsk) ==
    LET data == Encode(e)
        base == [NoReq EXCEPT !.data = data]
        failed == [base EXCEPT !.outcome = "failed", !.title = "Analysis Failed",
                               !.dialogs = 1]
        t == ScalerTransform(sc, data)
    IN  IF mv \notin Range(ms)
        THEN [failed EXCEPT !.lookup = TRUE, !.reason = "unknown model"]
        ELSE IF t.raised
        THEN [failed EXCEPT !.lookup = TRUE, !.transform = TRUE,
                            !.reason = "transform raised"]
        ELSE LET p == ModelPredict(dsk[mv], t.X)
             IN  IF p.raised
                 THEN [failed EXCEPT !.lookup = TRUE, !.transform = TRUE,
                                     !.predict = TRUE, !.reason = "predict raised"]
                 ELSE [base EXCEPT !.outcome = "label", !.lookup = TRUE,
                                   !.transform = TRUE, !.predict = TRUE,
                                   !.pred = p.label]

\* the try block of predict(), after validation passed
Analyse(e, mv, ms, sc, dsk) ==
    LET data == Encode(e)
        base == [NoReq EXCEPT !.data = data, !.transform = TRUE]
        failed == [base EXCEPT !.outcome = "failed", !.title = "Analysis Failed",
                               !.dialogs = 1]
        t == ScalerTransform(sc, data)
    IN  IF t.raised THEN [failed EXCEPT !.reason = "transform raised"]
        ELSE IF mv \notin Range(ms)
        THEN [failed EXCEPT !.lookup = TRUE, !.reason = "unknown model"]
        ELSE LET p == ModelPredict(dsk[mv], t.X)
             IN  IF p.raised
                 THEN [failed EXCEPT !.lookup = TRUE, !.predict = TRUE,
                                     !.reason = "predict raised"]
                 ELSE [base EXCEPT !.outcome = "label", !.lookup = TRUE,
                                   !.predict = TRUE, !.pred = p.label]

\* predict(): what the request does
Request(e, mv, ms, sc, dsk) ==
    LET err == ValidateInputs(e)
    IN  IF err # NoError
        THEN [NoReq EXCEPT !.outcome = "invalid", !.title = "Validation Error",
                           !.field = err.field, !.reason = err.reason,
                           !.dialogs = 1]
        ELSE Analyse(e, mv, ms, sc, dsk)

\* the text and colour predict() displays for a label
ResultFor(mv, pred) ==
    IF pred = 1 THEN [model |-> mv, risk |-> "High Risk", fg |-> "darkred"]
    ELSE [model |-> mv, risk |-> "Low Risk", fg |-> "darkgreen"]

Placeholder(colour) == [model |-> "", risk |-> "", fg |-> colour]

\* the write trace installed by add_validation(), run on text v
TraceStatus(v, status) ==
    IF v = <<>> THEN status
    ELSE IF FloatOk(v) THEN "Ready"
    ELSE "Error: Numeric value required"

\* the widgets after create_widgets() and set_default_values()
DefaultForm == [n \in 1..NFields |->
                   IF FieldDefs[n].opts = None THEN Defaults[n]
                   ELSE FieldDefs[n].opts[1].label]

\* the widgets after the loop of clear_fields()
ClearedForm == [n \in 1..NFields |->
                   IF FieldDefs[n].opts = None THEN <<>>
                   ELSE FieldDefs[n].opts[1].label]

-----------------------------------------------------------------------------
(* Start-up: HeartDiseasePredictor.__init__.                               *)

Init ==
    /\ pc = "load_models"
    /\ disk \in Disks
    /\ scalerFile \in ScalerFileKinds
    /\ i = 1
    /\ attempted = <<>>
    /\ models = <<>>
    /\ failed_models = <<>>
    /\ warnings = 0
    /\ fatal = ""
    /\ scaler = "unset"
    /\ entries = <<>>
    /\ model_var = ""
    /\ result_var = Placeholder("")
    /\ status_bar = ""
    /\ req = NoReq
    /\ nEvents = 0

\* mutant: the first file that fails to load ends the loop
LoadModelAbort ==
    /\ pc = "load_models"
    /\ i <= Len(Tags)
    /\ attempted' = Append(attempted, Tags[i])
    /\ IF disk[Tags[i]] # "corrupt"
       THEN /\ models' = Append(models, Tags[i])
            /\ i' = i + 1
            /\ UNCHANGED <<failed_models, warnings>>
       ELSE /\ failed_models' = Append(failed_models, Tags[i])
            /\ warnings' = warnings + 1
            /\ i' = Len(Tags) + 1
            /\ UNCHANGED models
    /\ UNCHANGED <<pc, disk, scalerFile, fatal, scaler, entries, model_var,
                   result_var, status_bar, req, nEvents>>

\* one iteration of the loop of load_models()
LoadModel ==
    /\ pc = "load_models"
    /\ i <= Len(Tags)
    /\ attempted' = Append(attempted, Tags[i])
    /\ IF disk[Tags[i]] # "corrupt"
       THEN /\ models' = Append(models, Tags[i])
            /\ UNCHANGED <<failed_models, warnings>>
       ELSE /\ failed_models' = Append(failed_models, Tags[i])
            /\ warnings' = warnings + 1
            /\ UNCHANGED models
    /\ i' = i + 1
    /\ UNCHANGED <<pc, disk, scalerFile, fatal, scaler, entries, model_var,
                   result_var, status_bar, req, nEvents>>

\* the end of load_models(): no model loaded is fatal
LoadModelsReturn ==
    /\ pc = "load_models"
    /\ i > Len(Tags)
    /\ IF models = <<>>
       THEN /\ fatal' = "Startup Error"
            /\ pc' = ShowError("load_scaler", NoModelsFatal)
       ELSE /\ pc' = "load_scaler"
            /\ UNCHANGED fatal
    /\ UNCHANGED <<disk, scalerFile, i, attempted, models, failed_models,
                   warnings, scaler, entries, model_var, result_var,
                   status_bar, req, nEvents>>

\* load_scaler()
LoadScaler ==
    /\ pc = "load_scaler"
    /\ IF scalerFile # "corrupt"
       THEN /\ scaler' = scalerFile
            /\ pc' = "create_ui"
            /\ UNCHANGED fatal
       ELSE /\ fatal' = "Critical Error"
            /\ pc' = ShowError("create_ui", ScalerErrorFatal)
            /\ UNCHANGED scaler
    /\ UNCHANGED <<disk, scalerFile, i, attempted, models, failed_models,
                   warnings, entries, model_var, result_var, status_bar, req,
                   nEvents>>

\* create_widgets() and set_default_values(); then root.mainloop()
CreateWidgets ==
    /\ pc = "create_ui"
    /\ entries' = DefaultForm
    /\ model_var' = IF models # <<>> THEN models[1] ELSE ""
    /\ result_var' = Placeholder("")
    /\ status_bar' = "Ready"
    /\ pc' = "mainloop"
    /\ UNCHANGED <<disk, scalerFile, i, attempted, models, failed_models,
                   warnings, fatal, scaler, req, nEvents>>

-----------------------------------------------------------------------------
(* The event loop: one action per user event, run to completion.           *)

\* texts a user leaves in a numeric entry
RawInputs == { <<>>, <<" ">>, <<"4", "x">>, <<" ", "7", " ">>,
               <<"6", ".", "5", "0">> }

Running == pc = "mainloop" /\ nEvents < MaxEvents

\* the user replaces the text of numeric entry n by s; the write trace runs
EditEntry(n, s) ==
    /\ Running
    /\ s # entries[n]
    /\ entries' = [entries EXCEPT ![n] = s]
    /\ status_bar' = TraceStatus(s, status_bar)
    /\ req' = NoReq
    /\ nEvents' = nEvents + 1
    /\ UNCHANGED <<pc, disk, scalerFile, i, attempted, models, failed_models,
                   warnings, fatal, scaler, model_var, result_var>>

\* the user picks label l in the read-only combobox of field n
SelectOption(n, l) ==
    /\ Running
    /\ l # entries[n]
    /\ entries' = [entries EXCEPT ![n] = l]
    /\ req' = NoReq
    /\ nEvents' = nEvents + 1
    /\ UNCHANGED <<pc, disk, scalerFile, i, attempted, models, failed_models,
                   warnings, fatal, scaler, model_var, result_var, status_bar>>

\* mutant: the combobox offers every tag of model_paths
ModelChoicesAll == TagSet

\* the values the model combobox offers
ModelChoices == Range(models)

\* the user picks tag t in the read-only model combobox
SelectModel(t) ==
    /\ Running
    /\ t # model_var
    /\ model_var' = t
    /\ req' = NoReq
    /\ nEvents' = nEvents + 1
    /\ UNCHANGED <<pc, disk, scalerFile, i, attempted, models, failed_models,
                   warnings, fatal, scaler, entries, result_var, status_bar>>

\* clear_fields()
ClearFields ==
    /\ Running
    /\ entries' = ClearedForm
    /\ result_var' = Placeholder("black")
    /\ status_bar' = "Fields cleared"
    /\ req' = NoReq
    /\ nEvents' = nEvents + 1
    /\ UNCHANGED <<pc, disk, scalerFile, i, attempted, models, failed_models,
                   warnings, fatal, scaler, model_var>>

\* mutant: a displayed prediction empties the numeric entries
PredictThenReset ==
    /\ Running
    /\ LET r == Request(entries, model_var, models, scaler, disk)
       IN  /\ req' = r
           /\ IF r.outcome = "label"
              THEN /\ result_var' = ResultFor(model_var, r.pred)
                   /\ status_bar' = "Prediction completed successfully"
                   /\ entries' = ClearedForm
                   /\ UNCHANGED pc
              ELSE IF r.outcome = "failed"
              THEN /\ pc' = ShowError(pc, AnalysisFailedFatal)
                   /\ UNCHANGED <<result_var, status_bar, entries>>
              ELSE UNCHANGED <<pc, result_var, status_bar, entries>>
    /\ nEvents' = nEvents + 1
    /\ UNCHANGED <<disk, scalerFile, i, attempted, models, failed_models,
                   warnings, fatal, scaler, model_var>>

\* predict()
Predict ==
    /\ Running
    /\ LET r == Request(entries, model_var, models, scaler, disk)
       IN  /\ req' = r
           /\ IF r.outcome = "label"
              THEN /\ result_var' = ResultFor(model_var, r.pred)
                   /\ status_bar' = "Prediction completed successfully"
                   /\ UNCHANGED pc
              ELSE IF r.outcome = "failed"
              THEN /\ pc' = ShowError(pc, AnalysisFailedFatal)
                   /\ UNCHANGED <<result_var, status_bar>>
              ELSE UNCHANGED <<pc, result_var, status_bar>>
    /\ nEvents' = nEvents + 1
    /\ UNCHANGED <<disk, scalerFile, i, attempted, models, failed_models,
                   warnings, fatal, scaler, entries, model_var>>

Next ==
    \/ LoadModel
    \/ LoadModelsReturn
    \/ LoadScaler
    \/ CreateWidgets
    \/ \E n \in NumericFields, s \in RawInputs : EditEntry(n, s)
    \/ \E n \in CategoricalFields : \E l \in Labels(FieldDefs[n].opts) :
          SelectOption(n, l)
    \/ \E t \in ModelChoices : SelectModel(t)
    \/ ClearFields
    \/ Predict

Spec == Init /\ [][Next]_vars

-----------------------------------------------------------------------------
(* predict() on its own: the object as __init__ leaves it, with the form   *)
(* filled in any way the widgets allow, and one predict() after another.   *)

\* self.models as load_models() returns it from deployment d
Loaded(d) == SelectSeq(Tags, LAMBDA t : d[t] # "corrupt")

Form(age, sex, cp, bp, chol, fbs, ecg, hr, angina, oldpeak, slope) ==
    <<age, sex, cp, bp, chol, fbs, ecg, hr, angina, oldpeak, slope>>

Texts(n) == RawInputs \cup {Defaults[n]}
Choices(n) == Labels(FieldDefs[n].opts)

\* every text in the entries, the comboboxes as created
NumericForms ==
    {Form(a, DefaultForm[2], DefaultForm[3], b, c, DefaultForm[6],
          DefaultForm[7], h, DefaultForm[9], o, DefaultForm[11]) :
        a \in Texts(1), b \in Texts(4), c \in Texts(5), h \in Texts(8),
        o \in Texts(10)}

\* every selection in the comboboxes, the entries at their defaults
CategoricalForms ==
    {Form(DefaultForm[1], x, cp, DefaultForm[4], DefaultForm[5], f, e,
          DefaultForm[8], g, DefaultForm[10], sl) :
        x \in Choices(2), cp \in Choices(3), f \in Choices(6),
        e \in Choices(7), g \in Choices(9), sl \in Choices(11)}

Forms == NumericForms \cup CategoricalForms

\* start-up completed on deployment d with scaler file sf
Started(d, sf) ==
    /\ pc = "mainloop"
    /\ disk = d
    /\ scalerFile = sf
    /\ i = Len(Tags) + 1
    /\ attempted = Tags
    /\ models = Loaded(d)
    /\ failed_models = SelectSeq(Tags, LAMBDA t : d[t] = "corrupt")
    /\ warnings = Len(failed_models)
    /\ fatal = ""
    /\ scaler = sf
    /\ status_bar = "Ready"
    /\ req = NoReq
    /\ nEvents = 0

\* every artifact intact, any form, any tag selected, a result on display
InitForm ==
    /\ Started(Shipped, "scaler")
    /\ entries \in Forms
    /\ model_var \in Range(models)
    /\ result_var \in {Placeholder(""), ResultFor("BFO", 1)}

NextForm == Predict

SpecForm == InitForm /\ [][NextForm]_vars

\* predict() driven with any tag in model_var, registered or not: the
\* read-only combobox never leaves an unregistered tag there, a caller of
\* the method can
InitDirect ==
    /\ \E d \in Disks, sf \in {"scaler", "broken"} :
          Loaded(d) # <<>> /\ Started(d, sf)
    /\ entries \in {DefaultForm, ClearedForm}
    /\ model_var \in TagSet \cup {""}
    /\ result_var = Placeholder("")

NextDirect == Predict

SpecDirect == InitDirect /\ [][NextDirect]_vars

-----------------------------------------------------------------------------
(* The claims.                                                             *)

\* a predict() request has just run
Requested == req.outcome # "none"

\* the numbers the texts of the model stand for, written out
KnownValue(raw) ==
    CASE raw = <<"5", "0">>           -> Float(50)
      [] raw = <<"1", "2", "0">>      -> Float(120)
      [] raw = <<"2", "0", "0">>      -> Float(200)
      [] raw = <<"1", "5", "0">>      -> Float(150)
      [] raw = <<"1", ".", "0">>      -> Float(1)
      [] raw = <<" ", "7", " ">>      -> Float(7)
      [] raw = <<"6", ".", "5", "0">> -> [kind |-> "finite", num |-> 65, exp |-> 1]

ValidTexts == {<<"5", "0">>, <<"1", "2", "0">>, <<"2", "0", "0">>,
               <<"1", "5", "0">>, <<"1", ".", "0">>, <<" ", "7", " ">>,
               <<"6", ".", "5", "0">>}

\* field n of form e holds a parseable number or a key of its mapping
ValidField(e, n) ==
    IF n \in NumericFields THEN e[n] \in ValidTexts
    ELSE \E o \in Range(FieldDefs[n].opts) : o.label = e[n]

AllValid(e) == \A n \in 1..NFields : ValidField(e, n)

\* the fields of e that are not valid, and the first of them
InvalidFields(e) == {n \in 1..NFields : ~ValidField(e, n)}
FirstInvalid(e) ==
    CHOOSE n \in InvalidFields(e) : \A m \in InvalidFields(e) : n <= m

Blank(raw) == \A n \in 1..Len(raw) : raw[n] \in {" ", "\t", "\n", "\r"}

Example == Form(<<"5", "0">>, "Male", "Typical angina", <<"1", "2", "0">>,
                <<"2", "0", "0">>, "No", "normal", <<"1", "5", "0">>, "No",
                <<"1", ".", "0">>, "upsloping")

ExampleVector == <<Float(50), Float(1), Float(1), Float(120), Float(200),
                   Float(0), Float(0), Float(150), Float(0), Float(1), Float(1)>>

\* C1: when every field is valid, the request passes validation and gathers
\* a vector of 11 values in schema order: the mapped integer at each
\* categorical field's position, the parsed number at each numeric field's;
\* the example form of the spec encodes to [50,1,1,120,200,0,0,150,0,1.0,1].
C1_EncodeSchemaOrder ==
    (Requested /\ AllValid(entries)) =>
        /\ req.outcome # "invalid"
        /\ Len(req.data) = 11
        /\ \A n \in NumericFields : req.data[n] = KnownValue(entries[n])
        /\ \A n \in CategoricalFields :
              \A o \in Range(FieldDefs[n].opts) :
                 o.label = entries[n] => req.data[n] = Float(o.code)
        /\ entries = Example => req.data = ExampleVector

C1_Witness ==
    /\ Requested
    /\ entries = Example
    /\ req.outcome = "label"
    /\ req.data = ExampleVector

\* C2 as stated: with all other fields valid, an empty numeric field fails
\* with reason "empty" naming the field, and a non-empty text that is not a
\* number fails with reason "not numeric" naming the field.
C2_Original ==
    \A n \in NumericFields :
        (Requested /\ \A m \in (1..NFields) \ {n} : ValidField(entries, m)) =>
            /\ entries[n] = <<>> =>
                  /\ req.outcome = "invalid"
                  /\ req.field = FieldDefs[n].key
                  /\ req.reason = "empty"
            /\ (entries[n] # <<>> /\ entries[n] \notin ValidTexts) =>
                  /\ req.outcome = "invalid"
                  /\ req.field = FieldDefs[n].key
                  /\ req.reason = "not numeric"

\* C2 amended: with all other fields valid, a numeric field that is empty or
\* holds only whitespace fails with reason "empty" naming the field; one
\* that holds other text that is not a number fails with reason "not
\* numeric" naming the field; validation passes in neither case.
C2_EmptyAfterStrip ==
    \A n \in NumericFields :
        (Requested /\ \A m \in (1..NFields) \ {n} : ValidField(entries, m)) =>
            /\ Blank(entries[n]) =>
                  /\ req.outcome = "invalid"
                  /\ req.field = FieldDefs[n].key
                  /\ req.reason = "empty"
                  /\ req.dialogs = 1
            /\ (~Blank(entries[n]) /\ entries[n] \notin ValidTexts) =>
                  /\ req.outcome = "invalid"
                  /\ req.field = FieldDefs[n].key
                  /\ req.reason = "not numeric"
                  /\ req.dialogs = 1

C2_Witness ==
    /\ Requested
    /\ entries[10] = <<" ">>
    /\ \A m \in (1..NFields) \ {10} : ValidField(entries, m)
    /\ req.outcome = "invalid"
    /\ req.field = "oldpeak"
    /\ req.reason = "empty"

\* C3: a request on a form with one or more invalid fields shows exactly
\* one validation error, that of the first invalid field in schema order,
\* gathers no data, calls neither scaler.transform nor model.predict, and
\* leaves the displayed result as it was.
C3_FirstInvalidOnly ==
    [][(req'.outcome # "none" /\ InvalidFields(entries) # {}) =>
          /\ req'.outcome = "invalid"
          /\ req'.dialogs = 1
          /\ req'.title = "Validation Error"
          /\ req'.field = FieldDefs[FirstInvalid(entries)].key
          /\ req'.reason =
                (IF Blank(entries[FirstInvalid(entries)]) THEN "empty"
                 ELSE "not numeric")
          /\ req'.data = <<>>
          /\ ~req'.transform /\ ~req'.lookup /\ ~req'.predict
          /\ result_var' = result_var
          /\ pc' = pc]_vars

C3_Witness ==
    /\ req.outcome = "invalid"
    /\ Cardinality(InvalidFields(entries)) >= 2
    /\ ValidField(entries, 1)
    /\ req.field = "resting bp s"
    /\ req.reason = "not numeric"
    /\ result_var.risk = "High Risk"

C5_LabelMustBeBinary ==
    (req.predict /\ req.reason # "predict raised" /\ req.pred \notin {0, 1}) =>
        /\ req.outcome = "failed"
        /\ result_var.risk \notin {"High Risk", "Low Risk"}

\* the files that fail to load
CorruptTags == {t \in TagSet : disk[t] = "corrupt"}

\* C6: once load_models() has run through model_paths, unless all five
\* files failed, the registry holds exactly the tags whose file loaded, one
\* warning was shown per failed tag, and every tag was attempted.
C6_PartialLoad ==
    ((pc # "load_models" \/ i > Len(Tags)) /\ CorruptTags # TagSet) =>
        /\ Range(models) = TagSet \ CorruptTags
        /\ Len(models) = Cardinality(TagSet \ CorruptTags)
        /\ warnings = Cardinality(CorruptTags)
        /\ Range(failed_models) = CorruptTags
        /\ attempted = Tags

C6_Witness ==
    /\ pc = "load_scaler"
    /\ CorruptTags = {"BFO", "GA"}
    /\ models = <<"ACO", "DE", "ABC">>
    /\ warnings = 2

\* C7: the UI exists and requests are served only after the scaler and at
\* least one model loaded; a scaler that fails to load, or five model files
\* that fail, end start-up in a fatal error box and the exit of the process
\* with no UI created and no request served.
C7_FatalLoad ==
    /\ pc \in {"create_ui", "mainloop"} =>
          /\ scalerFile # "corrupt"
          /\ scaler = scalerFile
          /\ models # <<>>
    /\ (scalerFile = "corrupt" \/ CorruptTags = TagSet) =>
          /\ pc \in {"load_models", "load_scaler", "exited"}
          /\ entries = <<>>
          /\ ~Requested
          /\ (pc = "load_scaler" => CorruptTags # TagSet)
    /\ pc = "exited" =>
          /\ fatal = (IF CorruptTags = TagSet THEN "Startup Error"
                      ELSE "Critical Error")
          /\ entries = <<>>
          /\ ~Requested

C7_Witness ==
    /\ pc = "exited"
    /\ fatal = "Critical Error"
    /\ scalerFile = "corrupt"
    /\ models # <<>>

\* C8: once the event loop runs, no event ends the process: a request that
\* fails validation or prediction shows one error box and the application
\* stays in the event loop.
C8_RequestsNeverExit ==
    [][pc = "mainloop" =>
          /\ pc' = "mainloop"
          /\ fatal' = ""
          /\ req'.outcome \in {"invalid", "failed"} => req'.dialogs = 1]_vars

C8_Witness ==
    /\ pc = "mainloop"
    /\ req.outcome = "failed"
    /\ req.reason = "predict raised"
    /\ nEvents = MaxEvents

\* C9: a request changes neither the field values, the selected tag, the
\* registry nor the scaler, and a request that follows another with nothing
\* in between has the same outcome and displays the same result.
C9_PredictIdempotent ==
    [][req'.outcome # "none" =>
          /\ entries' = entries
          /\ model_var' = model_var
          /\ models' = models
          /\ scaler' = scaler
          /\ disk' = disk
          /\ Requested => (req' = req /\ result_var' = result_var)]_vars

C9_Witness ==
    /\ nEvents = 2
    /\ entries = DefaultForm
    /\ model_var = models[1]
    /\ req.outcome = "label"
    /\ result_var = ResultFor(model_var, req.pred)

\* C10: while the event loop runs the selected tag is a key of the
\* registry, the registry is what load_models() returned, the selection
\* starts on the first loaded tag, and no request misses the lookup.
C10_SelectedTagRegistered ==
    pc = "mainloop" =>
        /\ model_var \in Range(models)
        /\ models = Loaded(disk)
        /\ nEvents = 0 => model_var = models[1]
        /\ req.reason # "unknown model"

C10_Witness ==
    /\ pc = "mainloop"
    /\ CorruptTags # {}
    /\ model_var # models[1]
    /\ req.outcome = "label"

=============================================================================
